---- MODULE Spec2Model ----
(***************************************************************************)
(* Real-time cursor synchronisation through the cursor_positions table:    *)
(*   - SpectaclesCursorClient (PC browser client) inserts position rows    *)
(*     and control rows,                                                   *)
(*   - RealtimeCursorBroadcaster (headset) inserts position and control    *)
(*     rows and keeps the leader flag,                                     *)
(*   - RealtimeCursorFollower (headset) polls the table over HTTP and      *)
(*     moves its target.                                                   *)
(* The table is the hosted cursor_positions relation; every request is an  *)
(* asynchronous HTTP call, so a request is issued in one step and takes    *)
(* effect (or is answered) in a later one.                                 *)
(***************************************************************************)
EXTENDS Integers, Sequences, FiniteSets, TLC

\* ------------------------------------------------------------------ bounds

\* the clock runs from tick 0 to tick MaxClock
MaxClock == 2
\* milliseconds that pass on one tick of the clock
MsPerTick == 50
\* Date.now() at tick 0 (any epoch offset larger than every throttle window)
StartTime == 1000
\* rows the table holds at most in the model
MaxRows == 2
\* HTTP requests in flight at most (inserts, and poll responses)
MaxInFlight == 2
\* broadcast callbacks the headset has started and not yet ended, at most
MaxLoops == 2

\* cleanup intervals that pass at most
MaxSweeps == 4
\* interval callbacks of the map that await their position, at most
MaxPending == 2
\* messages handed to the channels, at most
MaxSent == 3

\* ------------------------------------------------------- program constants

\* SpectaclesCursorClient.broadcastThrottleMs
broadcastThrottleMs == 50

\* RealtimeCursorBroadcaster.broadcastInterval (0.2 s), in milliseconds
broadcastIntervalMs == 200
\* RealtimeCursorBroadcaster inputs (defaults)
coordinateScale == 10
perspectiveScale == 10

\* lsXRange, lsYRange, invertX, invertY: inputs of the follower and of the
\* broadcaster, with the same defaults in both
lsXRange == 50
lsYRange == 30
invertX == FALSE
invertY == FALSE
\* RealtimeCursorFollower inputs (defaults), scales in hundredths
movementScaleH == 150
heightOffsetH == 0
distanceFromCameraH == 200
\* RealtimeCursorBroadcaster.maxDataAge (30 s), in milliseconds
maxDataAgeMs == 30000
\* the cleanup timer's reset(10), in milliseconds
cleanupIntervalMs == 10000
\* SimpleCursorBroadcaster: positionScale
positionScale == 20
\* a position that has not been taken through a mapping
NoTransform == [stage |-> "none"]

\* ------------------------------------------------------------ identifiers

\* identifiers are sequences of characters, so that LIKE patterns match them
\* character by character
pcPrefix == <<"p", "c", "_">>
spectaclesPrefix == <<"s", "p", "e", "c", "t", "a", "c", "l", "e", "s", "_">>
controlSuffix == <<"_", "c", "o", "n", "t", "r", "o", "l">>

\* the random part of generateUserId (Math.random().toString(36).substr(2, 9))
RandomPart == <<"k", "7">>

\* SpectaclesCursorClient.generateUserId
generateUserId == pcPrefix \o RandomPart

\* RealtimeCursorBroadcaster.initializeSupabase: this.userId
spectaclesUserId == spectaclesPrefix \o RandomPart

\* user_id of RealtimeCursorBroadcaster.testBroadcast
testUserLens == <<"t", "e", "s", "t", "-", "u", "s", "e", "r", "-", "l", "e", "n", "s">>

\* the follower's filter user_id=like.pc_%25 and the PC's .like('user_id', 'spectacles_%')
pcPattern == pcPrefix \o <<"%">>
spectaclesPattern == spectaclesPrefix \o <<"%">>

\* user_id of setTestCursorPosition's record
testUser == <<"t", "e", "s", "t", "-", "u", "s", "e", "r">>

RECURSIVE Like(_, _)
\* SQL LIKE: % matches any run of characters, _ matches exactly one character
Like(s, pat) ==
  IF pat = <<>> THEN s = <<>>
  ELSE IF Head(pat) = "%"
       THEN Like(s, Tail(pat)) \/ (s # <<>> /\ Like(Tail(s), pat))
       ELSE /\ s # <<>>
            /\ (Head(pat) = "_" \/ Head(pat) = Head(s))
            /\ Like(Tail(s), Tail(pat))

\* s starts with the literal prefix p
StartsWith(s, p) == Len(s) >= Len(p) /\ SubSeq(s, 1, Len(p)) = p

\* ----------------------------------------------------------------- inputs

\* room names a component can be configured with
Rooms == {"demo", "lab"}
\* positions a caller passes to a broadcast call (percentages)
Coords == {<<10, 20>>, <<15, 25>>}
\* positions a caller may pass as well: the second lies outside [0,100]
AnyCoords == {<<10, 20>>, <<150, 20>>}
\* room names a caller may pass to connect
AnyRooms == {"demo", ""}

\* positions of the tracked cursor object relative to the camera, in hundredths
\* of a unit: <<right, up, forward>> components
WorldInputs == {<<-80, 36, 200>>, <<300, 0, 100>>}

InRange(v) == 0 <= v /\ v <= 100

NoRow == [none |-> TRUE]

VARIABLES
  clock,            \* ticks since the start
  table,            \* the rows of cursor_positions
  inserts,          \* POST requests in flight: the row, and what awaits the answer
  responses,        \* answered polls of the follower, not yet delivered
  pc,               \* SpectaclesCursorClient
  follower,         \* RealtimeCursorFollower
  bc,               \* RealtimeCursorBroadcaster
  deletes,          \* DELETE requests in flight: the cutoff each carries
  sent,             \* the messages handed to channel.send
  simple,           \* SimpleCursorBroadcaster
  mv,               \* useRealtimeLocation of MapView
  xf                \* a position taken through the coordinate mappings

vars == <<clock, table, inserts, responses, pc, follower, bc,
          deletes, sent, simple, mv, xf>>

\* Date.now() at tick c
TimeAt(c) == StartTime + c * MsPerTick

\* Date.now()
DateNow == TimeAt(clock)

\* the ticks of one cleanup interval
CleanupTicks == cleanupIntervalMs \div MsPerTick

\* ------------------------------------------------------------- the table

\* a row of cursor_positions (the id and created_at columns are never read)
Row(room, uid, name, x, y, color, ts) ==
  [room_name |-> room, user_id |-> uid, user_name |-> name,
   x |-> x, y |-> y, color |-> color, timestamp |-> ts]

\* ...cursor_positions?room_name=eq.<room>&user_id=like.<pattern>
Matching(t, room, pattern) ==
  {r \in t : r.room_name = room /\ Like(r.user_id, pattern)}

\* order=timestamp.asc instead of desc: the oldest matching row
LatestRowsAscending(t, room, pattern) ==
  {r \in Matching(t, room, pattern) :
     \A o \in Matching(t, room, pattern) : o.timestamp >= r.timestamp}

\* ...&order=timestamp.desc&limit=1: the rows the server may answer with
\* (one of those with the greatest timestamp; none when nothing matches)
LatestRows(t, room, pattern) ==
  {r \in Matching(t, room, pattern) :
     \A o \in Matching(t, room, pattern) : o.timestamp <= r.timestamp}

\* SpectaclesCursorClient.getSpectaclesCursor: data[0], or null
GetSpectaclesCursor(t, room) ==
  IF LatestRows(t, room, spectaclesPattern) = {}
  THEN {NoRow}
  ELSE LatestRows(t, room, spectaclesPattern)

\* a request may be issued only while fewer than MaxInFlight are in flight
CanRequest == Cardinality(inserts) + Cardinality(responses) < MaxInFlight

\* a POST may be issued only while the model has room for its row
CanIssue == CanRequest /\ Cardinality(table) + Cardinality(inserts) < MaxRows

\* a POST of a row; then names the code that awaits the answer:
\* "become" (becomeSpectaclesLeader), "loop" (the broadcast callback),
\* "send" (the PC client's broadcastCursorPosition), "none"
Post(r, then) == [row |-> r, then |-> then]
\* time passes
Tick ==
  /\ clock < MaxClock
  /\ clock' = clock + 1
  /\ UNCHANGED <<table, inserts, responses, pc, follower, bc,
                 deletes, sent, simple, mv, xf>>

\* ------------------------------------------------ SpectaclesCursorClient

\* constructor
PcInit ==
  [supabase |-> FALSE, channel |-> FALSE, isConnected |-> FALSE,
   userId |-> generateUserId, userName |-> "PC User", userColor |-> "#FF6B6B",
   roomName |-> "", lastBroadcastTime |-> 0, lastResult |-> "none",
   sendError |-> FALSE]

\* connect(supabaseUrl, supabaseKey, roomName, userName) up to channel.subscribe
PcConnect(room) ==
  /\ ~pc.supabase
  /\ pc' = [pc EXCEPT !.supabase = TRUE, !.channel = TRUE, !.roomName = room]
  /\ UNCHANGED <<clock, table, inserts, responses, follower, bc,
                 deletes, sent, simple, mv, xf>>

\* the subscribe callback with status SUBSCRIBED
PcSubscribed ==
  /\ pc.channel
  /\ ~pc.isConnected
  /\ pc' = [pc EXCEPT !.isConnected = TRUE]
  /\ UNCHANGED <<clock, table, inserts, responses, follower, bc,
                 deletes, sent, simple, mv, xf>>

\* disconnect()
PcDisconnect ==
  /\ pc.supabase
  /\ pc' = [pc EXCEPT !.supabase = FALSE, !.channel = FALSE, !.isConnected = FALSE]
  /\ UNCHANGED <<clock, table, inserts, responses, follower, bc,
                 deletes, sent, simple, mv, xf>>

\* the cursorData of broadcastCursorPosition(x, y)
PcCursorData(x, y) ==
  Row(pc.roomName, pc.userId, pc.userName, x, y, pc.userColor, DateNow)

\* broadcastCursorPosition(x, y) without its throttle
PcBroadcastCursorPositionUnthrottled(x, y) ==
  \/ /\ ~pc.isConnected \/ ~pc.supabase
     /\ UNCHANGED vars
  \/ /\ pc.isConnected /\ pc.supabase
     /\ CanIssue
     /\ pc' = [pc EXCEPT !.lastBroadcastTime = DateNow]
     /\ inserts' = inserts \cup {Post(PcCursorData(x, y), "send")}
     /\ UNCHANGED <<clock, table, responses, follower, bc,
                    deletes, sent, simple, mv, xf>>

\* broadcastCursorPosition(x, y): false when not connected or throttled,
\* otherwise the row is sent to the table
PcBroadcastCursorPosition(x, y) ==
  \/ /\ ~pc.isConnected \/ ~pc.supabase
     /\ UNCHANGED vars
  \/ /\ pc.isConnected /\ pc.supabase
     /\ DateNow - pc.lastBroadcastTime < broadcastThrottleMs
     /\ UNCHANGED vars
  \/ /\ pc.isConnected /\ pc.supabase
     /\ ~(DateNow - pc.lastBroadcastTime < broadcastThrottleMs)
     /\ CanIssue
     /\ pc' = [pc EXCEPT !.lastBroadcastTime = DateNow]
     /\ inserts' = inserts \cup {Post(PcCursorData(x, y), "send")}
     /\ UNCHANGED <<clock, table, responses, follower, bc,
                    deletes, sent, simple, mv, xf>>

\* the name of the PC client's channel of a room
CursorRoom(room) == <<"cursor-room-", room>>

\* a message handed to channel.send of the channel named topic
Message(topic, event, payload) ==
  [topic |-> topic, event |-> event, payload |-> payload]

\* broadcastCursorPosition awaiting channel.send and returning false when the
\* send does not deliver
PcAfterInsertAwaited(p, snt, then, row, ok, delivered) ==
  IF then # "send" THEN [pc |-> p, sent |-> snt]
  ELSE IF ~ok THEN [pc |-> [p EXCEPT !.lastResult = "false"], sent |-> snt]
  ELSE IF ~p.channel THEN [pc |-> [p EXCEPT !.lastResult = "true"], sent |-> snt]
  ELSE [pc |-> [p EXCEPT !.lastResult = IF delivered THEN "true" ELSE "false",
                         !.sendError = ~delivered],
        sent |-> snt \cup {Message(CursorRoom(p.roomName), "cursor-move", row)}]

\* broadcastCursorPosition after its await of the insert: false on an error;
\* otherwise the record is sent on the channel, when there is one, and the
\* call returns true. The promise of channel.send is not awaited: whether the
\* send delivers (delivered) is kept in sendError and read by no code
PcAfterInsert(p, snt, then, row, ok, delivered) ==
  IF then # "send" THEN [pc |-> p, sent |-> snt]
  ELSE IF ~ok THEN [pc |-> [p EXCEPT !.lastResult = "false"], sent |-> snt]
  ELSE IF ~p.channel THEN [pc |-> [p EXCEPT !.lastResult = "true"], sent |-> snt]
  ELSE [pc |-> [p EXCEPT !.lastResult = "true", !.sendError = ~delivered],
        sent |-> snt \cup {Message(CursorRoom(p.roomName), "cursor-move", row)}]

\* the control row of setControlMode(mode): the mode is not part of it
PcControlData ==
  Row(pc.roomName, pc.userId \o controlSuffix, "PC User (control)", 0, 0,
      pc.userColor, DateNow)

\* setControlMode(mode)
PcSetControlMode ==
  /\ pc.supabase
  /\ CanIssue
  /\ inserts' = inserts \cup {Post(PcControlData, "none")}
  /\ UNCHANGED <<clock, table, responses, pc, follower, bc,
                 deletes, sent, simple, mv, xf>>

\* ---------------------------------------------------- coordinate mappings

\* the mapping parameters as the components declare them
Params ==
  [lsXRange |-> lsXRange, lsYRange |-> lsYRange,
   invertX |-> invertX, invertY |-> invertY,
   coordinateScale |-> coordinateScale, perspectiveScale |-> perspectiveScale,
   movementScaleH |-> movementScaleH, heightOffsetH |-> heightOffsetH,
   distanceFromCameraH |-> distanceFromCameraH, positionScale |-> positionScale]

\* no clamping
NoClamp(v) == v

\* Math.max(0, Math.min(100, v))
Clamp(v) == IF v < 0 THEN 0 ELSE IF v > 100 THEN 100 ELSE v

\* Math.abs
Abs(v) == IF v < 0 THEN -v ELSE v

\* the broadcaster's Lens Studio coordinates of the camera-relative position
\* w (hundredths): <<lsX * f, lsY * f, f>> with f = max(|forward|, 1.0) in
\* hundredths, lsX = right * (perspectiveScale / f) * coordinateScale, and
\* the axis inversions applied
LsOf(w, prm) ==
  LET maxF == IF Abs(w[3]) > 100 THEN Abs(w[3]) ELSE 100
      sx == IF prm.invertX THEN -1 ELSE 1
      sy == IF prm.invertY THEN -1 ELSE 1
  IN  << sx * w[1] * prm.perspectiveScale * prm.coordinateScale,
         sy * w[2] * prm.perspectiveScale * prm.coordinateScale,
         maxF >>

\* the broadcaster's native -> percentage mapping:
\* webX = ((lsX + lsXRange) / (lsXRange * 2)) * 100 and
\* webY = ((lsYRange - lsY) / (lsYRange * 2)) * 100, clamped to [0,100]
ToWeb(w, prm) ==
  LET ls == LsOf(w, prm)
      webX == ((ls[1] + prm.lsXRange * ls[3]) * 100) \div (prm.lsXRange * 2 * ls[3])
      webY == ((prm.lsYRange * ls[3] - ls[2]) * 100) \div (prm.lsYRange * 2 * ls[3])
  IN  <<Clamp(webX), Clamp(webY)>>

\* the follower's percentage -> native mapping, in hundredths of a unit:
\* (lsX / lsXRange) * movementScale with
\* lsX = (x / 100) * (lsXRange * 2) - lsXRange, the height offset added to
\* the second component, and distanceFromCamera as the third
FromWeb(x, y, prm) ==
  LET sx == IF prm.invertX THEN -1 ELSE 1
      sy == IF prm.invertY THEN -1 ELSE 1
      lsX100 == sx * (x * (prm.lsXRange * 2) - 100 * prm.lsXRange)
      lsY100 == sy * (100 * prm.lsYRange - y * (prm.lsYRange * 2))
  IN  << (lsX100 * prm.movementScaleH) \div (100 * prm.lsXRange),
         (lsY100 * prm.movementScaleH) \div (100 * prm.lsYRange)
            + prm.heightOffsetH,
         prm.distanceFromCameraH >>

\* SimpleCursorBroadcaster's native -> percentage mapping:
\* 50 + x * positionScale and 50 - y * positionScale, clamped to [0,100]
ToScreen(rel, prm) ==
  << Clamp(50 + (rel[1] * prm.positionScale) \div 100),
     Clamp(50 - (rel[2] * prm.positionScale) \div 100) >>

\* ------------------------------------------------ RealtimeCursorFollower

\* the fields at onAwake; following is the user of the status text
FollowerInit(room) ==
  [roomName |-> room, lastCursorUpdate |-> 0,
   targetPosition |-> <<0, 0, 0>>, following |-> <<>>,
   activeUsers |-> {}]

\* percentage -> Lens Studio target, in hundredths of a unit:
\* (lsX / lsXRange) * movementScale with lsX = (x / 100) * (lsXRange * 2) - lsXRange
TargetOf(x, y) == FromWeb(x, y, Params)

\* handleCursorUpdate without its "ignore old updates" return
HandleCursorUpdateNoGuard(f, cursorData) ==
  LET timestamp == IF cursorData.timestamp # 0 THEN cursorData.timestamp ELSE DateNow
  IN  [f EXCEPT
         !.lastCursorUpdate = timestamp,
         !.targetPosition = TargetOf(cursorData.x, cursorData.y),
         !.following = cursorData.user_id,
         !.activeUsers =
            {u \in f.activeUsers : u.user_id # cursorData.user_id}
            \cup {[user_id |-> cursorData.user_id, lastSeen |-> timestamp]}]

\* handleCursorUpdate(cursorData)
HandleCursorUpdate(f, cursorData) ==
  LET timestamp == IF cursorData.timestamp # 0 THEN cursorData.timestamp ELSE DateNow
  IN  IF timestamp <= f.lastCursorUpdate
      THEN f
      ELSE [f EXCEPT
              !.lastCursorUpdate = timestamp,
              !.targetPosition = TargetOf(cursorData.x, cursorData.y),
              !.following = cursorData.user_id,
              !.activeUsers =
                 {u \in f.activeUsers : u.user_id # cursorData.user_id}
                 \cup {[user_id |-> cursorData.user_id, lastSeen |-> timestamp]}]

\* checkForCursorUpdates without the user_id=like.pc_%25 filter
FollowerPollNoFilter ==
  /\ CanRequest
  /\ \/ /\ LatestRows(table, follower.roomName, <<"%">>) = {}
        /\ responses' = responses \cup {NoRow}
     \/ \E r \in LatestRows(table, follower.roomName, <<"%">>) :
          responses' = responses \cup {r}
  /\ UNCHANGED <<clock, table, inserts, pc, follower, bc,
                 deletes, sent, simple, mv, xf>>

\* checkForCursorUpdates without order=timestamp.desc: any matching row
FollowerPollAnyRow ==
  /\ CanRequest
  /\ \/ /\ Matching(table, follower.roomName, pcPattern) = {}
        /\ responses' = responses \cup {NoRow}
     \/ \E r \in Matching(table, follower.roomName, pcPattern) :
          responses' = responses \cup {r}
  /\ UNCHANGED <<clock, table, inserts, pc, follower, bc,
                 deletes, sent, simple, mv, xf>>

\* checkForCursorUpdates: the GET is answered from the table as it is now
FollowerPoll ==
  /\ CanRequest
  /\ \/ /\ LatestRows(table, follower.roomName, pcPattern) = {}
        /\ responses' = responses \cup {NoRow}
     \/ \E r \in LatestRows(table, follower.roomName, pcPattern) :
          responses' = responses \cup {r}
  /\ UNCHANGED <<clock, table, inserts, pc, follower, bc,
                 deletes, sent, simple, mv, xf>>

\* the answer arrives, and an empty answer is applied as a position at the
\* origin
FollowerReceiveEmptyResets(resp) ==
  /\ resp \in responses
  /\ responses' = responses \ {resp}
  /\ \/ /\ resp = NoRow
        /\ follower' = [follower EXCEPT !.following = <<>>,
                                        !.targetPosition = TargetOf(0, 0),
                                        !.lastCursorUpdate = DateNow]
     \/ /\ resp # NoRow
        /\ follower' = HandleCursorUpdate(follower, resp)
  /\ UNCHANGED <<clock, table, inserts, pc, bc, deletes, sent, simple, mv, xf>>

\* the answer arrives: data[0] goes to handleCursorUpdate, an empty answer
\* changes only the status text
FollowerReceive(resp) ==
  /\ resp \in responses
  /\ responses' = responses \ {resp}
  /\ \/ /\ resp = NoRow
        /\ follower' = [follower EXCEPT !.following = <<>>]
     \/ /\ resp # NoRow
        /\ follower' = HandleCursorUpdate(follower, resp)
  /\ UNCHANGED <<clock, table, inserts, pc, bc, deletes, sent, simple, mv, xf>>

\* the answer is an HTTP error, or fetch throws: nothing is applied
FollowerReceiveError(resp) ==
  /\ resp \in responses
  /\ responses' = responses \ {resp}
  /\ UNCHANGED <<clock, table, inserts, pc, follower, bc,
                 deletes, sent, simple, mv, xf>>

\* setTestCursorPosition(x, y)
SetTestCursorPosition(x, y) ==
  /\ follower' = HandleCursorUpdate(follower,
        Row(follower.roomName, testUser, "Test User", x, y, "#FF6B6B", DateNow))
  /\ UNCHANGED <<clock, table, inserts, responses, pc, bc,
                 deletes, sent, simple, mv, xf>>

\* --------------------------------------------- RealtimeCursorBroadcaster

\* the fields after onAwake with credentials configured; cursorObject tells
\* whether a cursor object is assigned; loops counts the broadcast callbacks
\* whose DelayedCallbackEvent is armed; the cleanup is switched off
BcInit(hasCursor) ==
  [isInitialized |-> TRUE, started |-> FALSE, cursorObject |-> hasCursor,
   isSpectaclesLeader |-> FALSE, currentControlMode |-> "pc_leader",
   userId |-> spectaclesUserId, userColor |-> "#4ECDC4", roomName |-> "demo",
   lastBroadcastTime |-> 0, loops |-> 0,
   enableCleanup |-> FALSE, cleanupArmed |-> FALSE]

\* the cutoffTime of cleanupOldCursorData at the time now
CutoffTimeAhead(now) == now + maxDataAgeMs

\* the cutoffTime of cleanupOldCursorData at the time now
CutoffTime(now) == now - maxDataAgeMs

\* a DELETE ...cursor_positions?timestamp=lt.<cutoff>, issued at the time
\* now; done tells whether the table has executed it
Delete(now) == [cutoff |-> CutoffTime(now), issued |-> now, done |-> FALSE]

\* timestamp=lt.<cutoff> or equal
ExpiredOrEqual(r, cutoff) == r.timestamp <= cutoff

\* timestamp=lt.<cutoff>: the rows the DELETE removes, of every room
Expired(r, cutoff) == r.timestamp < cutoff

\* startCleanupTimer: the cleanup callback runs at once and arms its timer
StartCleanupTimer(b, dels) ==
  IF b.enableCleanup
  THEN [bc |-> [b EXCEPT !.cleanupArmed = TRUE],
        deletes |-> dels \cup {Delete(DateNow)}]
  ELSE [bc |-> b, deletes |-> dels]

\* the broadcast callback's mapping of the object's camera-relative position
\* (hundredths) to clamped web percentages
WebOf(w) == ToWeb(w, Params)

\* the controlData of broadcastControlSignal(mode): the mode is not part of it
BcControlData(b) ==
  Row(b.roomName, b.userId \o controlSuffix, "Spectacles Controller", 0, 0,
      b.userColor, DateNow)

\* broadcastSpectaclesCursor passes its throttle
BcNotThrottled(b) == ~(DateNow - b.lastBroadcastTime < broadcastIntervalMs)

\* the broadcast callback of startSpectaclesCursorBroadcast would send a row
BcWouldPost(b) ==
  b.isSpectaclesLeader /\ b.cursorObject /\ b.isInitialized /\ BcNotThrottled(b)

\* broadcastSpectaclesCursor that also writes the control mode of the data's
\* consumer into currentControlMode
BroadcastSpectaclesCursorSetsMode(b, ins, x, y) ==
  IF b.isInitialized /\ BcNotThrottled(b)
  THEN [bc |-> [b EXCEPT !.lastBroadcastTime = DateNow,
                         !.currentControlMode = "pc_leader"],
        inserts |-> ins \cup
          {Post(Row(b.roomName, b.userId, "Spectacles", x, y, b.userColor,
                    DateNow), "loop")}]
  ELSE [bc |-> [b EXCEPT !.loops = @ + 1], inserts |-> ins]

\* broadcastSpectaclesCursor(userId, "Spectacles", x, y, color) as the
\* broadcast callback awaits it: a throttled call returns at once and the
\* callback re-arms; otherwise the row is sent and the callback re-arms after
\* the answer
BroadcastSpectaclesCursor(b, ins, x, y) ==
  IF b.isInitialized /\ BcNotThrottled(b)
  THEN [bc |-> [b EXCEPT !.lastBroadcastTime = DateNow],
        inserts |-> ins \cup
          {Post(Row(b.roomName, b.userId, "Spectacles", x, y, b.userColor,
                    DateNow), "loop")}]
  ELSE [bc |-> [b EXCEPT !.loops = @ + 1], inserts |-> ins]

\* the broadcast callback without its check of isSpectaclesLeader
BroadcastCallbackUnchecked(b, ins, w) ==
  IF b.cursorObject
  THEN BroadcastSpectaclesCursor(b, ins, WebOf(w)[1], WebOf(w)[2])
  ELSE [bc |-> b, inserts |-> ins]

\* one run of the broadcast callback for the object position w: a leader
\* broadcasts the clamped position, otherwise the callback ends without
\* re-arming
BroadcastCallback(b, ins, w) ==
  IF b.isSpectaclesLeader /\ b.cursorObject
  THEN BroadcastSpectaclesCursor(b, ins, WebOf(w)[1], WebOf(w)[2])
  ELSE [bc |-> b, inserts |-> ins]

\* startSpectaclesCursorBroadcast: no loop without a cursor object, otherwise
\* a new callback that runs at once
StartSpectaclesCursorBroadcast(b, ins, w) ==
  IF ~b.cursorObject
  THEN [bc |-> b, inserts |-> ins]
  ELSE BroadcastCallback(b, ins, w)

\* what runs when the answer to a POST arrives
Continue(then, b, ins, w) ==
  IF then = "become" THEN StartSpectaclesCursorBroadcast(b, ins, w)
  ELSE IF then = "loop" THEN [bc |-> [b EXCEPT !.loops = @ + 1], inserts |-> ins]
  ELSE [bc |-> b, inserts |-> ins]

\* the broadcast callbacks that are armed, await an answer, or are about to
\* be started by a becomeSpectaclesLeader in progress
ActiveLoops(b, ins) ==
  b.loops + Cardinality({q \in ins : q.then \in {"loop", "become"}})

\* becomeSpectaclesLeader without its broadcastControlSignal
BecomeSpectaclesLeaderUnsignalled(b, ins) ==
  [bc |-> [b EXCEPT !.isSpectaclesLeader = TRUE,
                    !.currentControlMode = "spectacles_leader"],
   inserts |-> ins]

\* becomeSpectaclesLeader up to its await of broadcastControlSignal
BecomeSpectaclesLeader(b, ins) ==
  [bc |-> [b EXCEPT !.isSpectaclesLeader = TRUE,
                    !.currentControlMode = "spectacles_leader"],
   inserts |-> IF b.isInitialized
               THEN ins \cup {Post(BcControlData(b), "become")}
               ELSE ins]

\* resignSpectaclesLeader leaving currentControlMode as it is
ResignSpectaclesLeaderKeepsMode(b, ins) ==
  [bc |-> [b EXCEPT !.isSpectaclesLeader = FALSE],
   inserts |-> IF b.isInitialized
               THEN ins \cup {Post(BcControlData(b), "none")}
               ELSE ins]

\* resignSpectaclesLeader
ResignSpectaclesLeader(b, ins) ==
  [bc |-> [b EXCEPT !.isSpectaclesLeader = FALSE,
                    !.currentControlMode = "pc_leader"],
   inserts |-> IF b.isInitialized
               THEN ins \cup {Post(BcControlData(b), "none")}
               ELSE ins]

\* startBroadcastService (OnStartEvent): becomes leader when a cursor object
\* is assigned
BcStartBroadcastService ==
  /\ bc.isInitialized
  /\ ~bc.started
  /\ \/ /\ bc.cursorObject
        /\ CanIssue
        /\ ActiveLoops(bc, inserts) < MaxLoops
        /\ LET res == BecomeSpectaclesLeader([bc EXCEPT !.started = TRUE], inserts)
               cln == StartCleanupTimer(res.bc, deletes)
           IN  bc' = cln.bc /\ inserts' = res.inserts /\ deletes' = cln.deletes
     \/ /\ ~bc.cursorObject
        /\ LET cln == StartCleanupTimer([bc EXCEPT !.started = TRUE], deletes)
           IN  bc' = cln.bc /\ deletes' = cln.deletes
        /\ UNCHANGED inserts
  /\ UNCHANGED <<clock, table, responses, pc, follower, sent, simple, mv, xf>>

\* the cleanup timer fires, one cleanup interval after it was armed: the
\* callback calls cleanupOldCursorData and arms the timer again
BcCleanupTick ==
  /\ bc.cleanupArmed
  /\ clock + CleanupTicks <= MaxSweeps * CleanupTicks
  /\ Cardinality(deletes) < MaxInFlight
  /\ clock' = clock + CleanupTicks
  /\ deletes' = deletes \cup {Delete(TimeAt(clock + CleanupTicks))}
  /\ UNCHANGED <<table, inserts, responses, pc, follower, bc,
                 sent, simple, mv, xf>>

\* toggleSpectaclesControl: the take-control button is pressed
BcToggleSpectaclesControl ==
  /\ CanIssue
  /\ \/ /\ bc.isSpectaclesLeader
        /\ LET res == ResignSpectaclesLeader(bc, inserts)
           IN  bc' = res.bc /\ inserts' = res.inserts
     \/ /\ ~bc.isSpectaclesLeader
        /\ ActiveLoops(bc, inserts) < MaxLoops
        /\ LET res == BecomeSpectaclesLeader(bc, inserts)
           IN  bc' = res.bc /\ inserts' = res.inserts
  /\ UNCHANGED <<clock, table, responses, pc, follower,
                 deletes, sent, simple, mv, xf>>

\* an armed DelayedCallbackEvent fires: the broadcast callback runs
BcBroadcastTick(w) ==
  /\ bc.loops > 0
  /\ BcWouldPost(bc) => CanIssue
  /\ LET res == BroadcastCallback([bc EXCEPT !.loops = @ - 1], inserts, w)
     IN  bc' = res.bc /\ inserts' = res.inserts
  /\ UNCHANGED <<clock, table, responses, pc, follower,
                 deletes, sent, simple, mv, xf>>

\* broadcastCursorPosition(userId, userName, x, y, color): the public call
BcBroadcastCursorPosition(userId, userName, x, y) ==
  /\ bc.isInitialized
  /\ CanIssue
  /\ inserts' = inserts \cup
       {Post(Row(bc.roomName, userId, userName, x, y, "#FF6B6B", DateNow), "none")}
  /\ UNCHANGED <<clock, table, responses, pc, follower, bc,
                 deletes, sent, simple, mv, xf>>

\* testBroadcast: a position with both coordinates drawn from [0, 100)
BcTestBroadcast(x, y) ==
  /\ 0 <= x /\ x < 100 /\ 0 <= y /\ y < 100
  /\ BcBroadcastCursorPosition(testUserLens, "Lens Test User", x, y)

\* ------------------------------------------------ SimpleCursorBroadcaster

\* the fields after onAwake with credentials and a cursor object configured;
\* timerEnabled and timerArmed describe the DelayedCallbackEvent that
\* broadcastTimer names
SimpleInit ==
  [isInitialized |-> TRUE, isBroadcasting |-> FALSE,
   userId |-> spectaclesPrefix \o <<"s", "9">>, roomName |-> "demo",
   timerEnabled |-> FALSE, timerArmed |-> FALSE]

\* worldToScreen for the camera-relative position rel (hundredths):
\* 50 + x * positionScale and 50 - y * positionScale, clamped
WorldToScreen(rel) == ToScreen(rel, Params)

\* the cursorData of broadcastCursorPosition: the columns of the other
\* producers and device_type
SimpleCursorData(rel) ==
  [room_name |-> simple.roomName, user_id |-> simple.userId,
   user_name |-> "Spectacles User",
   x |-> WorldToScreen(rel)[1], y |-> WorldToScreen(rel)[2],
   color |-> "#4ECDC4", timestamp |-> DateNow, device_type |-> "spectacles"]

\* startBroadcasting: a new timer, and the broadcast callback runs at once
SimpleStartBroadcasting(rel) ==
  /\ simple.isInitialized
  /\ ~simple.isBroadcasting
  /\ CanIssue
  /\ simple' = [simple EXCEPT !.isBroadcasting = TRUE, !.timerEnabled = TRUE,
                              !.timerArmed = FALSE]
  /\ inserts' = inserts \cup {Post(SimpleCursorData(rel), "simple")}
  /\ UNCHANGED <<clock, table, responses, pc, follower, bc,
                 deletes, sent, mv, xf>>

\* stopBroadcasting
SimpleStopBroadcasting ==
  /\ simple.isBroadcasting
  /\ simple' = [simple EXCEPT !.isBroadcasting = FALSE, !.timerEnabled = FALSE]
  /\ UNCHANGED <<clock, table, inserts, responses, pc, follower, bc,
                 deletes, sent, mv, xf>>

\* the armed timer fires: the broadcast callback sends the position while
\* broadcasting, and otherwise ends
SimpleTimerFire(rel) ==
  /\ simple.timerArmed
  /\ simple.timerEnabled
  /\ simple.isBroadcasting => CanIssue
  /\ simple' = [simple EXCEPT !.timerArmed = FALSE]
  /\ inserts' = IF simple.isBroadcasting
                THEN inserts \cup {Post(SimpleCursorData(rel), "simple")}
                ELSE inserts
  /\ UNCHANGED <<clock, table, responses, pc, follower, bc,
                 deletes, sent, mv, xf>>

\* the broadcast callback ending after its await, without broadcastTimer.reset
SimpleAfterInsertNoReset(sm, then) == sm

\* the broadcast callback after its await of broadcastCurrentPosition, which
\* returns on success and on failure alike: broadcastTimer.reset
SimpleAfterInsert(sm, then) ==
  IF then = "simple" THEN [sm EXCEPT !.timerArmed = TRUE] ELSE sm

\* ------------------------------------------- useRealtimeLocation (MapView)

\* the channel all instances share
locations == <<"locations">>

\* before onMounted: no channel; pending counts the interval callbacks that
\* await getCurrentPosition
MvInit ==
  [mounted |-> "no", channel |-> FALSE, isConnected |-> FALSE,
   interval |-> FALSE, pending |-> 0, userId |-> "anna", positions |-> {}]

\* start (onMounted): the channel is created and subscribe is called
MvStart ==
  /\ mv.mounted = "no"
  /\ mv' = [mv EXCEPT !.mounted = "mounted", !.channel = TRUE]
  /\ UNCHANGED <<clock, table, inserts, responses, pc, follower, bc,
                 deletes, sent, simple, xf>>

\* the subscribe callback with status SUBSCRIBED: the 5 s interval starts
MvSubscribed ==
  /\ mv.mounted = "mounted"
  /\ ~mv.isConnected
  /\ mv' = [mv EXCEPT !.isConnected = TRUE, !.interval = TRUE]
  /\ UNCHANGED <<clock, table, inserts, responses, pc, follower, bc,
                 deletes, sent, simple, xf>>

\* the interval fires: its callback asks for the position and awaits it
MvIntervalFire ==
  /\ mv.interval
  /\ mv.pending < MaxPending
  /\ mv' = [mv EXCEPT !.pending = @ + 1]
  /\ UNCHANGED <<clock, table, inserts, responses, pc, follower, bc,
                 deletes, sent, simple, xf>>

\* getCurrentPosition resolves: the callback sends the location on the
\* channel
MvLocated(lat, lng) ==
  /\ mv.pending > 0
  /\ Cardinality(sent) < MaxSent
  /\ mv' = [mv EXCEPT !.pending = @ - 1]
  /\ sent' = sent \cup
       {Message(locations, "location_update",
                [id |-> mv.userId, lat |-> lat, lng |-> lng])}
  /\ UNCHANGED <<clock, table, inserts, responses, pc, follower, bc,
                 deletes, simple, xf>>

\* getCurrentPosition rejects: the callback warns and ends
MvLocateFailed ==
  /\ mv.pending > 0
  /\ mv' = [mv EXCEPT !.pending = @ - 1]
  /\ UNCHANGED <<clock, table, inserts, responses, pc, follower, bc,
                 deletes, sent, simple, xf>>

\* the broadcast handler for a location_update delivered on the channel
\* (self: true, so the instance's own messages are delivered to it as well):
\* positions[id] = {lat, lng}
MvReceive(m) ==
  /\ m \in sent
  /\ m.topic = locations /\ m.event = "location_update"
  /\ mv.isConnected
  /\ mv' = [mv EXCEPT !.positions =
              {e \in @ : e.id # m.payload.id} \cup {m.payload}]
  /\ UNCHANGED <<clock, table, inserts, responses, pc, follower, bc,
                 deletes, sent, simple, xf>>

\* stop (onUnmounted): clearInterval, unsubscribe
MvStop ==
  /\ mv.mounted = "mounted"
  /\ mv' = [mv EXCEPT !.mounted = "unmounted", !.interval = FALSE,
                      !.isConnected = FALSE]
  /\ UNCHANGED <<clock, table, inserts, responses, pc, follower, bc,
                 deletes, sent, simple, xf>>

\* ------------------------------------------- the mappings applied in turn

\* camera-relative positions (hundredths): inside the range of the default
\* parameters, on the camera axis nearer than one unit, and far outside
NativeInputs ==
  WorldInputs \cup {<<40, 20, 200>>, <<0, 0, 50>>, <<-500, -400, 300>>}

\* percentage pairs of [0,100] x [0,100]
ExchangeInputs == {<<10, 20>>, <<0, 0>>, <<100, 100>>, <<50, 50>>, <<70, 30>>}

\* parameter settings within the ranges the components' sliders allow
ParamSettings ==
  [lsXRange : {10, lsXRange, 200}, lsYRange : {lsYRange},
   invertX : BOOLEAN, invertY : BOOLEAN,
   coordinateScale : {1, coordinateScale, 50},
   perspectiveScale : {perspectiveScale, 20},
   movementScaleH : {movementScaleH}, heightOffsetH : {heightOffsetH},
   distanceFromCameraH : {distanceFromCameraH},
   positionScale : {1, positionScale}]

\* the broadcaster maps a native position to percentages
XfToExchange ==
  /\ xf.stage = "native"
  /\ xf' = [stage |-> "web", p |-> xf.p, prm |-> xf.prm,
            web |-> ToWeb(xf.p, xf.prm)]
  /\ UNCHANGED <<clock, table, inserts, responses, pc, follower, bc,
                 deletes, sent, simple, mv>>

\* the follower maps the broadcaster's percentages back to a native position
XfFromExchange ==
  /\ xf.stage = "web"
  /\ xf' = [stage |-> "back", p |-> xf.p, prm |-> xf.prm, web |-> xf.web,
            back |-> FromWeb(xf.web[1], xf.web[2], xf.prm)]
  /\ UNCHANGED <<clock, table, inserts, responses, pc, follower, bc,
                 deletes, sent, simple, mv>>

\* the follower maps a percentage pair to a native position
XfPlace ==
  /\ xf.stage = "exchange"
  /\ xf' = [stage |-> "placed", e |-> xf.e, prm |-> xf.prm,
            target |-> FromWeb(xf.e[1], xf.e[2], xf.prm)]
  /\ UNCHANGED <<clock, table, inserts, responses, pc, follower, bc,
                 deletes, sent, simple, mv>>

\* the broadcaster maps the follower's native position back to percentages
XfObserve ==
  /\ xf.stage = "placed"
  /\ xf' = [stage |-> "again", e |-> xf.e, prm |-> xf.prm,
            target |-> xf.target, web |-> ToWeb(xf.target, xf.prm)]
  /\ UNCHANGED <<clock, table, inserts, responses, pc, follower, bc,
                 deletes, sent, simple, mv>>

\* SimpleCursorBroadcaster maps a native position to percentages
XfWorldToScreen ==
  /\ xf.stage = "native"
  /\ xf' = [stage |-> "screen", p |-> xf.p, prm |-> xf.prm,
            web |-> ToScreen(xf.p, xf.prm)]
  /\ UNCHANGED <<clock, table, inserts, responses, pc, follower, bc,
                 deletes, sent, simple, mv>>

\* ------------------------------------------------------------ the network

\* the columns of cursor_positions a POST may name
Columns == DOMAIN Row("", <<>>, "", 0, 0, "", 0)

\* the POST as an upsert keyed by (room_name, user_id): the row replaces the
\* stored rows of its user
InsertLandUpsert(q) ==
  /\ q \in inserts
  /\ DOMAIN q.row \subseteq Columns
  /\ table' = {o \in table : ~(o.room_name = q.row.room_name
                                  /\ o.user_id = q.row.user_id)} \cup {q.row}
  /\ \E w \in WorldInputs :
       LET res == Continue(q.then, bc, inserts \ {q}, w)
       IN  bc' = res.bc /\ inserts' = res.inserts
  /\ LET res == PcAfterInsert(pc, sent, q.then, q.row, TRUE, TRUE)
     IN  pc' = res.pc /\ sent' = res.sent
  /\ simple' = SimpleAfterInsert(simple, q.then)
  /\ UNCHANGED <<clock, responses, follower, deletes, mv, xf>>

\* the POST reaches the table and the write delivers inline: it waits until
\* the follower has taken its earlier answers and runs the follower's
\* handler on the row before it returns
InsertLandInline(q) ==
  /\ q \in inserts
  /\ DOMAIN q.row \subseteq Columns
  /\ responses = {}
  /\ table' = table \cup {q.row}
  /\ follower' = HandleCursorUpdate(follower, q.row)
  /\ \E w \in WorldInputs :
       LET res == Continue(q.then, bc, inserts \ {q}, w)
       IN  bc' = res.bc /\ inserts' = res.inserts
  /\ LET res == PcAfterInsert(pc, sent, q.then, q.row, TRUE, TRUE)
     IN  pc' = res.pc /\ sent' = res.sent
  /\ simple' = SimpleAfterInsert(simple, q.then)
  /\ UNCHANGED <<clock, responses, deletes, mv, xf>>

\* the POST reaches the table: the row is stored, and the code awaiting the
\* answer continues
InsertLand(q) ==
  /\ q \in inserts
  /\ DOMAIN q.row \subseteq Columns
  /\ table' = table \cup {q.row}
  /\ \E w \in WorldInputs :
       /\ (q.then = "become" /\ BcWouldPost(bc))
             => Cardinality(table') + Cardinality(inserts \ {q}) < MaxRows
       /\ LET res == Continue(q.then, bc, inserts \ {q}, w)
          IN  bc' = res.bc /\ inserts' = res.inserts
  /\ LET res == PcAfterInsert(pc, sent, q.then, q.row, TRUE, TRUE)
     IN  pc' = res.pc /\ sent' = res.sent
  /\ simple' = SimpleAfterInsert(simple, q.then)
  /\ UNCHANGED <<clock, responses, follower, deletes, mv, xf>>

\* the POST of the PC client reaches the table and the row is stored, and the
\* channel.send that follows does not deliver it
InsertLandSendFails(q) ==
  /\ q \in inserts
  /\ q.then = "send"
  /\ pc.channel
  /\ DOMAIN q.row \subseteq Columns
  /\ table' = table \cup {q.row}
  /\ inserts' = inserts \ {q}
  /\ LET res == PcAfterInsert(pc, sent, q.then, q.row, TRUE, FALSE)
     IN  pc' = res.pc /\ sent' = res.sent
  /\ UNCHANGED <<clock, responses, follower, bc, deletes, simple, mv, xf>>

\* the DELETE reaches the table: the rows older than its cutoff are removed
DeleteLand(d) ==
  /\ d \in deletes
  /\ ~d.done
  /\ table' = {r \in table : ~Expired(r, d.cutoff)}
  /\ deletes' = (deletes \ {d}) \cup {[d EXCEPT !.done = TRUE]}
  /\ UNCHANGED <<clock, inserts, responses, pc, follower, bc,
                 sent, simple, mv, xf>>

\* the answer to the DELETE arrives: cleanupOldCursorData logs and ends
DeleteAnswered(d) ==
  /\ d \in deletes
  /\ d.done
  /\ deletes' = deletes \ {d}
  /\ UNCHANGED <<clock, table, inserts, responses, pc, follower, bc,
                 sent, simple, mv, xf>>

\* the DELETE fails (error answer or exception): nothing is removed
DeleteFail(d) ==
  /\ d \in deletes
  /\ ~d.done
  /\ deletes' = deletes \ {d}
  /\ UNCHANGED <<clock, table, inserts, responses, pc, follower, bc,
                 sent, simple, mv, xf>>

\* the POST fails (error answer or exception): nothing is stored, and the
\* code awaiting the answer continues
InsertFail(q) ==
  /\ q \in inserts
  /\ \E w \in WorldInputs :
       /\ (q.then = "become" /\ BcWouldPost(bc))
             => Cardinality(table) + Cardinality(inserts \ {q}) < MaxRows
       /\ LET res == Continue(q.then, bc, inserts \ {q}, w)
          IN  bc' = res.bc /\ inserts' = res.inserts
  /\ LET res == PcAfterInsert(pc, sent, q.then, q.row, FALSE, TRUE)
     IN  pc' = res.pc /\ sent' = res.sent
  /\ simple' = SimpleAfterInsert(simple, q.then)
  /\ UNCHANGED <<clock, table, responses, follower, deletes, mv, xf>>

\* ---------------------------------------------------------- specification

\* nothing swept, nothing sent on a channel, the other components not started
Idle ==
  /\ deletes = {}
  /\ sent = {}
  /\ simple = SimpleInit
  /\ mv = MvInit
  /\ xf = NoTransform

Init ==
  /\ clock = 0
  /\ table = {}
  /\ inserts = {}
  /\ responses = {}
  /\ pc = PcInit
  /\ follower = FollowerInit("demo")
  /\ bc = BcInit(TRUE)
  /\ Idle

\* the PC client writes and the follower polls; the headset broadcaster stays
\* idle
Next ==
  \/ Tick
  \/ \E q \in inserts : InsertLand(q)
  \/ \E q \in inserts : InsertFail(q)
  \/ \E room \in Rooms : PcConnect(room)
  \/ PcSubscribed
  \/ \E c \in Coords : PcBroadcastCursorPosition(c[1], c[2])
  \/ FollowerPoll
  \/ \E resp \in responses : FollowerReceive(resp)
  \/ \E resp \in responses : FollowerReceiveError(resp)
  \/ \E c \in Coords : SetTestCursorPosition(c[1], c[2])

Spec == Init /\ [][Next]_vars

\* the headset broadcaster and the PC client write, the follower polls
NextLeader ==
  \/ Tick
  \/ \E q \in inserts : InsertLand(q)
  \/ \E q \in inserts : InsertFail(q)
  \/ BcStartBroadcastService
  \/ BcToggleSpectaclesControl
  \/ \E w \in WorldInputs : BcBroadcastTick(w)
  \/ PcConnect("demo")
  \/ PcSubscribed
  \/ PcBroadcastCursorPosition(10, 20)
  \/ FollowerPoll
  \/ \E resp \in responses : FollowerReceive(resp)
  \/ \E resp \in responses : FollowerReceiveError(resp)

\* the headset is configured with or without a cursor object
InitLeader ==
  /\ clock = 0
  /\ table = {}
  /\ inserts = {}
  /\ responses = {}
  /\ pc = PcInit
  /\ follower = FollowerInit("demo")
  /\ \E hasCursor \in BOOLEAN : bc = BcInit(hasCursor)
  /\ Idle

SpecLeader == InitLeader /\ [][NextLeader]_vars

\* the callers of the public calls pass what they like; the follower polls
NextInputs ==
  \/ Tick
  \/ \E q \in inserts : InsertLand(q)
  \/ \E room \in AnyRooms : PcConnect(room)
  \/ PcSubscribed
  \/ \E c \in AnyCoords : PcBroadcastCursorPosition(c[1], c[2])
  \/ \E c \in AnyCoords :
       BcBroadcastCursorPosition(spectaclesUserId, "Spectacles", c[1], c[2])
  \/ BcTestBroadcast(15, 25)
  \/ FollowerPoll
  \/ \E resp \in responses : FollowerReceive(resp)
  \/ SetTestCursorPosition(15, 25)

SpecInputs == Init /\ [][NextInputs]_vars

\* the headset runs its service with the cleanup switched on and no cursor
\* object
InitSweep ==
  /\ clock = 0
  /\ table = {}
  /\ inserts = {}
  /\ responses = {}
  /\ pc = PcInit
  /\ follower = FollowerInit("demo")
  /\ bc = [BcInit(FALSE) EXCEPT !.enableCleanup = TRUE]
  /\ Idle

\* the PC client writes, the follower polls, and the headset sweeps the
\* table every cleanup interval
NextSweep ==
  \/ BcStartBroadcastService
  \/ BcCleanupTick
  \/ \E d \in deletes : DeleteLand(d)
  \/ \E d \in deletes : DeleteAnswered(d)
  \/ \E d \in deletes : DeleteFail(d)
  \/ \E q \in inserts : InsertLand(q)
  \/ PcConnect("demo")
  \/ PcSubscribed
  \/ \E c \in Coords : PcBroadcastCursorPosition(c[1], c[2])
  \/ FollowerPoll
  \/ \E resp \in responses : FollowerReceive(resp)

SpecSweep == InitSweep /\ [][NextSweep]_vars

\* the PC client connects, writes, disconnects and connects again, to the
\* same room or to another one; the follower polls
NextSession ==
  \/ Tick
  \/ \E q \in inserts : InsertLand(q)
  \/ \E q \in inserts : InsertFail(q)
  \/ \E q \in inserts : InsertLandSendFails(q)
  \/ \E room \in Rooms : PcConnect(room)
  \/ PcSubscribed
  \/ PcDisconnect
  \/ \E c \in Coords : PcBroadcastCursorPosition(c[1], c[2])
  \/ FollowerPoll
  \/ \E resp \in responses : FollowerReceive(resp)
  \/ \E resp \in responses : FollowerReceiveError(resp)

SpecSession == Init /\ [][NextSession]_vars

\* the map's location sharing, the simple broadcaster's loop and the PC
\* client, each started and stopped at any moment
NextCancel ==
  \/ Tick
  \/ \E q \in inserts : InsertLand(q)
  \/ \E q \in inserts : InsertFail(q)
  \/ PcConnect("demo")
  \/ PcSubscribed
  \/ PcDisconnect
  \/ \E c \in Coords : PcBroadcastCursorPosition(c[1], c[2])
  \/ \E w \in WorldInputs : SimpleStartBroadcasting(w)
  \/ SimpleStopBroadcasting
  \/ \E w \in WorldInputs : SimpleTimerFire(w)
  \/ MvStart
  \/ MvSubscribed
  \/ MvIntervalFire
  \/ \E c \in Coords : MvLocated(c[1], c[2])
  \/ MvLocateFailed
  \/ \E m \in sent : MvReceive(m)
  \/ MvStop

SpecCancel == Init /\ [][NextCancel]_vars

\* a position and a parameter setting, before any mapping is applied
InitTransform ==
  /\ clock = 0
  /\ table = {}
  /\ inserts = {}
  /\ responses = {}
  /\ pc = PcInit
  /\ follower = FollowerInit("demo")
  /\ bc = BcInit(TRUE)
  /\ deletes = {}
  /\ sent = {}
  /\ simple = SimpleInit
  /\ mv = MvInit
  /\ xf \in {[stage |-> "native", p |-> w, prm |-> prm] :
               w \in NativeInputs, prm \in ParamSettings}
          \cup {[stage |-> "exchange", e |-> e, prm |-> prm] :
               e \in ExchangeInputs, prm \in ParamSettings}

NextTransform ==
  \/ XfToExchange
  \/ XfFromExchange
  \/ XfPlace
  \/ XfObserve
  \/ XfWorldToScreen

SpecTransform == InitTransform /\ [][NextTransform]_vars

\* both sides write positions and control signals, the follower polls
NextControl ==
  \/ Tick
  \/ \E q \in inserts : InsertLand(q)
  \/ \E q \in inserts : InsertFail(q)
  \/ PcConnect("demo")
  \/ PcSubscribed
  \/ PcBroadcastCursorPosition(10, 20)
  \/ PcSetControlMode
  \/ BcToggleSpectaclesControl
  \/ \E w \in WorldInputs : BcBroadcastTick(w)
  \/ FollowerPoll
  \/ \E resp \in responses : FollowerReceive(resp)

SpecControl == Init /\ [][NextControl]_vars

\* the headset of room demo sweeps the table while the PC client writes to
\* room lab
NextSweepRooms ==
  \/ BcStartBroadcastService
  \/ BcCleanupTick
  \/ \E d \in deletes : DeleteLand(d)
  \/ \E d \in deletes : DeleteAnswered(d)
  \/ \E d \in deletes : DeleteFail(d)
  \/ \E q \in inserts : InsertLand(q)
  \/ PcConnect("lab")
  \/ PcSubscribed
  \/ PcBroadcastCursorPosition(10, 20)

SpecSweepRooms == InitSweep /\ [][NextSweepRooms]_vars

\* SimpleCursorBroadcaster is started and stopped, and its timer and the
\* server run
NextSimple ==
  \/ Tick
  \/ \E q \in inserts : InsertFail(q)
  \/ \E w \in NativeInputs : SimpleStartBroadcasting(w)
  \/ SimpleStopBroadcasting
  \/ \E w \in NativeInputs : SimpleTimerFire(w)

\* every request is answered in the end, and an armed, enabled timer fires
SpecSimple ==
  /\ Init
  /\ [][NextSimple]_vars
  /\ WF_vars(\E q \in inserts : InsertFail(q))
  /\ WF_vars(\E w \in NativeInputs : SimpleTimerFire(w))

\* -------------------------------------------------------------- properties

\* two rows of the same client in the same room
SameClient(a, b) == a.room_name = b.room_name /\ a.user_id = b.user_id

\* the rows the table accepts in this step
Accepted == table' \ table

\* C1 as stated: a valid position write, followed at once by the latest query
\* of its room, returns exactly the submitted record
C1_WriteThenReadExact ==
  [][\A r \in Accepted :
       (InRange(r.x) /\ InRange(r.y))
          => LatestRows(table', r.room_name, pcPattern) = {r}]_vars

\* C1 amended: a valid position write of a PC client, followed at once by the
\* latest query of its room, returns a record at least as new as the submitted
\* one, and exactly the submitted record when every other matching row of the
\* room is older
C1_WriteThenReadNewest ==
  [][\A r \in Accepted :
       (InRange(r.x) /\ InRange(r.y) /\ Like(r.user_id, pcPattern))
          => /\ LatestRows(table', r.room_name, pcPattern) # {}
             /\ \A q \in LatestRows(table', r.room_name, pcPattern) :
                  q.timestamp >= r.timestamp
             /\ (\A o \in Matching(table', r.room_name, pcPattern) \ {r} :
                   o.timestamp < r.timestamp)
                  => LatestRows(table', r.room_name, pcPattern) = {r}]_vars

\* C1 witness: the follower has applied the PC client's stored valid record,
\* which is the only latest row of its room
C1_Witness ==
  \E r \in table :
    /\ InRange(r.x) /\ InRange(r.y)
    /\ r.user_id = pc.userId
    /\ LatestRows(table, follower.roomName, pcPattern) = {r}
    /\ follower.lastCursorUpdate = r.timestamp
    /\ follower.following = r.user_id
    /\ follower.targetPosition = TargetOf(r.x, r.y)

\* C2 as stated: the store holds at most one record per (room, client_id)
C2_OneRowPerClient ==
  \A a \in table : \A b \in table : SameClient(a, b) => a = b

\* C2 amended: a poll is answered with at most one record, a stored row of
\* the polled room whose timestamp is the greatest among the matching rows
\* (the table itself keeps one row per write)
C2_PollAnswersNewest ==
  [][\A resp \in responses' \ responses :
       IF Matching(table, follower.roomName, pcPattern) = {}
       THEN resp = NoRow
       ELSE /\ resp \in Matching(table, follower.roomName, pcPattern)
            /\ \A o \in Matching(table, follower.roomName, pcPattern) :
                 o.timestamp <= resp.timestamp]_vars

\* C2 witness: the client wrote (10,20) and later (15,25); both rows are
\* stored and the poll was answered with (15,25)
C2_Witness ==
  \E a \in table : \E b \in table :
    /\ SameClient(a, b)
    /\ a.x = 10 /\ a.y = 20 /\ b.x = 15 /\ b.y = 25
    /\ a.timestamp < b.timestamp
    /\ responses = {b}

\* C3 as stated: a record older than the stored one of the same client leaves
\* the store unchanged
C3_OlderLeavesStoreUnchanged ==
  [][\A r \in Accepted :
       ~\E o \in table : SameClient(o, r) /\ o.timestamp > r.timestamp]_vars

\* C3 amended: a record older than the stored one of the same client is
\* stored as one more row, but the latest query answers as before it, no
\* stored row is lost, and the follower keeps a newer record it has applied
C3_OlderNeverWins ==
  [][/\ \A r \in Accepted :
          (\E o \in table : SameClient(o, r) /\ o.timestamp > r.timestamp)
             => /\ LatestRows(table', r.room_name, pcPattern)
                     = LatestRows(table, r.room_name, pcPattern)
                /\ table \subseteq table'
     /\ \A resp \in responses \ responses' :
          (resp # NoRow /\ resp.timestamp <= follower.lastCursorUpdate)
             => follower'.lastCursorUpdate = follower.lastCursorUpdate
                /\ follower'.targetPosition = follower.targetPosition]_vars

\* C3 witness: a record of the client is in flight while a newer one of the
\* same client is stored and applied by the follower
C3_Witness ==
  \E q \in inserts : \E o \in table :
    /\ SameClient(o, q.row)
    /\ o.timestamp > q.row.timestamp
    /\ follower.lastCursorUpdate = o.timestamp

\* C4: the timestamps of the updates the follower applies never decrease,
\* for the follower as a whole and for each client it has seen, and its
\* target moves only with a strictly newer record
C4_AppliedInOrder ==
  [][/\ follower'.lastCursorUpdate >= follower.lastCursorUpdate
     /\ (follower'.targetPosition # follower.targetPosition
           \/ follower'.activeUsers # follower.activeUsers)
          => follower'.lastCursorUpdate > follower.lastCursorUpdate
     /\ \A u \in follower.activeUsers :
          \E v \in follower'.activeUsers :
            v.user_id = u.user_id /\ v.lastSeen >= u.lastSeen]_vars

\* C4 witness: overlapping polls answered out of order: the follower has
\* applied a record while the answer of an earlier poll, an older record of
\* the same client, is still on its way
C4_Witness ==
  \E resp \in responses :
    /\ resp # NoRow
    /\ resp.timestamp < follower.lastCursorUpdate
    /\ follower.following = resp.user_id
    /\ \E u \in follower.activeUsers :
         u.user_id = resp.user_id /\ u.lastSeen > resp.timestamp

\* a control row: its user_id ends with _control
IsControl(r) ==
  /\ Len(r.user_id) >= Len(controlSuffix)
  /\ SubSeq(r.user_id, Len(r.user_id) - Len(controlSuffix) + 1, Len(r.user_id))
       = controlSuffix

\* the headset is leader, its control signal is stored in its room and none
\* of its control signals is still on its way
HeadsetLeadEstablished ==
  /\ bc.isSpectaclesLeader
  /\ \E c \in table : c = [BcControlData(bc) EXCEPT !.timestamp = c.timestamp]
  /\ ~\E q \in inserts : q.row.user_id = bc.userId \o controlSuffix

\* C5 as stated: the PC side and the headset side never both act as leader of
\* a room: while the headset leads, with its control signal stored, the PC
\* client starts no position write to that room
C5_NeverBothLead ==
  [][HeadsetLeadEstablished
       => ~\E q \in inserts' \ inserts :
             q.row.user_id = pc.userId /\ q.row.room_name = bc.roomName]_vars

\* C6 as stated: while the headset is leader of the room, the follower does
\* not apply a record of another client
C6_FollowsLeaderOnly ==
  [][HeadsetLeadEstablished
       => \A resp \in responses \ responses' :
            (resp # NoRow /\ resp.user_id # bc.userId)
               => /\ follower'.targetPosition = follower.targetPosition
                  /\ follower'.lastCursorUpdate = follower.lastCursorUpdate]_vars

\* C7: a step that sends or stores a position row leaves the leader flag and
\* the control mode as they were
C7_PositionWriteKeepsLeader ==
  [][((\E q \in inserts' \ inserts : ~IsControl(q.row))
        \/ (\E r \in Accepted : ~IsControl(r)))
       => /\ bc'.isSpectaclesLeader = bc.isSpectaclesLeader
          /\ bc'.currentControlMode = bc.currentControlMode]_vars

\* C7 witness: the headset leads, and position rows of the headset and of the
\* PC client are stored
C7_Witness ==
  /\ bc.isSpectaclesLeader
  /\ bc.currentControlMode = "spectacles_leader"
  /\ \E r \in table : r.user_id = bc.userId
  /\ \E r \in table : r.user_id = pc.userId

\* C8 as stated: a write with a coordinate outside [0,100] or with an empty
\* room name is rejected at the call: it is neither sent nor stored
C8_InvalidWriteRejected ==
  /\ \A q \in inserts :
       InRange(q.row.x) /\ InRange(q.row.y) /\ q.row.room_name # ""
  /\ \A r \in table : r.room_name # ""

\* C9 as stated: every stored record has x and y within [0,100]
C9_StoredInRange ==
  \A r \in table : InRange(r.x) /\ InRange(r.y)

\* a user_id a headset producer writes with: the broadcaster's generated id,
\* its control id, or the id of its test broadcast
IsHeadsetId(uid) == Like(uid, spectaclesPattern) \/ uid = testUserLens

\* C10: the device class is the user_id prefix. A poll is answered only with
\* rows of the polled room whose user_id matches the poll's pattern (pc_% for
\* the follower, spectacles_% for the PC's getSpectaclesCursor), so no row of
\* a headset producer is returned to the poll for pc, and the follower never
\* applies a record of a headset producer
C10_PollFiltersByPattern ==
  /\ \A resp \in responses :
       resp # NoRow
          => /\ Like(resp.user_id, pcPattern)
             /\ ~IsHeadsetId(resp.user_id)
             /\ resp.room_name = follower.roomName
  /\ \A u \in follower.activeUsers :
       /\ ~IsHeadsetId(u.user_id)
       /\ Like(u.user_id, pcPattern) \/ u.user_id = testUser
  /\ ~IsHeadsetId(follower.following)
  /\ \A r \in GetSpectaclesCursor(table, "demo") :
       r # NoRow => Like(r.user_id, spectaclesPattern)

\* C10 witness: a headset row is the newest row of the follower's room, and
\* the follower has applied the older row of the PC client
C10_Witness ==
  \E h \in table : \E r \in table :
    /\ h.user_id = bc.userId /\ r.user_id = pc.userId
    /\ h.room_name = follower.roomName /\ r.room_name = follower.roomName
    /\ h.timestamp > r.timestamp
    /\ follower.lastCursorUpdate = r.timestamp
    /\ follower.following = pc.userId
    /\ GetSpectaclesCursor(table, "demo") = {h}

\* C11 as stated: a client polling or subscribed to a room only ever sees
\* records written to that room: every answer to the follower's poll is a row
\* of the follower's room, and every record handed to the channel of a room
\* is a record of that room
C11_RoomIsolation ==
  /\ \A resp \in responses :
       resp # NoRow => resp.room_name = follower.roomName
  /\ \A m \in sent :
       m.event = "cursor-move" => m.topic = CursorRoom(m.payload.room_name)

\* the table executes the DELETE d in this step
Executes(d) ==
  /\ d \in deletes /\ ~d.done
  /\ d \notin deletes'
  /\ [d EXCEPT !.done = TRUE] \in deletes' \ deletes

C13_WrittenDuringSweepSurvives ==
  [][\A d \in deletes :
       Executes(d)
          => \A r \in table : r.timestamp >= d.issued => r \in table']_vars

\* C13 witness: a sweep has been executed and has removed the record the
\* follower had applied, and a record written at or after the time the sweep
\* computed its cutoff is stored
C13_Witness ==
  \E d \in deletes : \E r \in table :
    /\ d.done
    /\ r.timestamp >= d.issued
    /\ follower.lastCursorUpdate > 0
    /\ follower.lastCursorUpdate < d.cutoff
    /\ ~\E o \in table : o.timestamp = follower.lastCursorUpdate

\* the PC client holds a subscribed channel of the room
PcSubscribedTo(room) ==
  pc.supabase /\ pc.channel /\ pc.isConnected /\ pc.roomName = room

\* C14 as stated: every position write issued to a room while a subscriber is
\* subscribed to it is delivered to that subscriber: the record stored in
\* this step is handed to the channel of the room the PC client is
\* subscribed to
C14_EveryWritePushed ==
  [][\A r \in Accepted :
       (~IsControl(r) /\ PcSubscribedTo(r.room_name))
          => \E m \in sent' :
               m.topic = CursorRoom(r.room_name) /\ m.payload = r]_vars

\* C17 as stated: on every write the new record is delivered to all the
\* registered subscribers of the room other than an originator that excludes
\* its own records: the PC client's channel has self: false, so a record of
\* another client stored in this step is handed to the channel of the room
\* the PC client is subscribed to, and is not a record of the PC client
C17_DeliveredExceptSelf ==
  [][\A r \in Accepted :
       (~IsControl(r) /\ PcSubscribedTo(r.room_name) /\ r.user_id # pc.userId)
          => \E m \in sent' :
               /\ m.topic = CursorRoom(r.room_name)
               /\ m.payload = r
               /\ m.payload.user_id # pc.userId]_vars

\* the PC client's rows stored in this step
PcStored == {q \in inserts \ inserts' : q.then = "send" /\ q.row \in Accepted}

\* a poll answer is consumed in this step without being applied
PollNotApplied == responses' # responses /\ follower' = follower

\* C15: a delivery failure is isolated. The PC client's write reports success
\* whenever its record was stored, also when the send on the channel does not
\* deliver, and a failing send leaves the polling subscriber and its answers
\* as they were; a poll answer that is not applied leaves the table, the
\* writes in flight, the PC client and the channel as they were
C15_DeliveryFailureIsolated ==
  [][/\ PcStored # {} =>
          /\ pc'.lastResult = "true"
          /\ pc'.sendError => (follower' = follower /\ responses' = responses)
     /\ PollNotApplied =>
          (table' = table /\ inserts' = inserts /\ pc' = pc /\ sent' = sent)]_vars

\* C15 witness: a send on the channel did not deliver, its record is stored
\* and the write reported success
C15_Witness ==
  /\ pc.sendError
  /\ pc.lastResult = "true"
  /\ \E m \in sent : m.event = "cursor-move" /\ m.payload \in table

\* the messages handed to the channel named topic in this step
HandedTo(topic) == {m \in sent' \ sent : m.topic = topic}

\* the POSTs issued in this step by the code that continues as then
Issued(then) == {q \in inserts' \ inserts : q.then = then}

\* C16 as stated: after stop, stopBroadcasting or disconnect, whenever it
\* occurs, the stopped map instance sends no further location and applies no
\* further update, the stopped broadcaster issues no further position and
\* the disconnected PC client issues and sends no further record
C16_CancelStops ==
  [][/\ mv.mounted = "unmounted" =>
          (HandedTo(locations) = {} /\ mv'.positions = mv.positions)
     /\ (~simple.isBroadcasting /\ ~simple'.isBroadcasting) =>
          Issued("simple") = {}
     /\ (~pc.supabase /\ ~pc'.supabase) =>
          (Issued("send") = {} /\ HandedTo(CursorRoom(pc.roomName)) = {})]_vars

\* the native position w lies inside the native range of prm: its Lens
\* Studio coordinates are within -lsXRange..lsXRange and -lsYRange..lsYRange
InsideNativeRange(w, prm) ==
  LET ls == LsOf(w, prm)
  IN  /\ Abs(ls[1]) <= prm.lsXRange * ls[3]
      /\ Abs(ls[2]) <= prm.lsYRange * ls[3]

\* two native positions agree to within four hundredths in each component:
\* one percentage point mapped back by the follower is three hundredths
NearNative(a, b) == \A i \in 1..3 : Abs(a[i] - b[i]) <= 4

\* two percentage pairs agree to within one percentage point
NearExchange(a, b) == \A i \in 1..2 : Abs(a[i] - b[i]) <= 1

\* C18 as stated: with the same parameters, the follower's mapping of the
\* broadcaster's percentages gives back the native position when it lies
\* inside the native range, and the broadcaster's mapping of the follower's
\* position gives back every percentage pair of [0,100] x [0,100]
C18_RoundTrip ==
  /\ (xf.stage = "back" /\ InsideNativeRange(xf.p, xf.prm))
        => NearNative(xf.back, xf.p)
  /\ xf.stage = "again" => NearExchange(xf.web, xf.e)

\* the percentage a Lens Studio coordinate beyond its range is nearest to:
\* 100 beyond the upper end of X and the lower end of Y, 0 beyond the others
NearestBoundary(w, prm, web) ==
  LET ls == LsOf(w, prm)
  IN  /\ ls[1] > prm.lsXRange * ls[3] => web[1] = 100
      /\ ls[1] < -(prm.lsXRange * ls[3]) => web[1] = 0
      /\ ls[2] > prm.lsYRange * ls[3] => web[2] = 0
      /\ ls[2] < -(prm.lsYRange * ls[3]) => web[2] = 100

\* the same for SimpleCursorBroadcaster, whose range is the positions that
\* 50 + x * positionScale and 50 - y * positionScale keep within 0..100
NearestBoundaryScreen(rel, prm, web) ==
  /\ rel[1] * prm.positionScale > 5000 => web[1] = 100
  /\ rel[1] * prm.positionScale < -5000 => web[1] = 0
  /\ rel[2] * prm.positionScale > 5000 => web[2] = 0
  /\ rel[2] * prm.positionScale < -5000 => web[2] = 100

\* C19: for every native input and every parameter setting both percentages
\* of the broadcaster's and of SimpleCursorBroadcaster's mapping lie in
\* [0,100], and an input beyond the native range maps to the nearest
\* boundary, 0 or 100
C19_ToExchangeClamps ==
  /\ xf.stage \in {"web", "back", "again", "screen"}
        => (InRange(xf.web[1]) /\ InRange(xf.web[2]))
  /\ xf.stage = "web" => NearestBoundary(xf.p, xf.prm, xf.web)
  /\ xf.stage = "again" => NearestBoundary(xf.target, xf.prm, xf.web)
  /\ xf.stage = "screen" => NearestBoundaryScreen(xf.p, xf.prm, xf.web)

\* C19 witness: an input beyond the native range on both axes, with an
\* inverted axis and scales other than the defaults, is mapped to boundaries
C19_Witness ==
  /\ xf.stage = "web"
  /\ ~InsideNativeRange(xf.p, xf.prm)
  /\ xf.prm.invertX /\ xf.prm.coordinateScale # coordinateScale
  /\ xf.web = <<100, 100>>

\* the headset leaves pc_leader in this step
LeavesPcLeader ==
  bc.currentControlMode = "pc_leader" /\ bc'.currentControlMode # "pc_leader"

\* the headset's take-control signal is issued in this step: its control row
\* of this moment is on its way to the table
TakeControlSignalled ==
  \E q \in inserts' :
     /\ q.then = "become"
     /\ q.row = BcControlData(bc)

TakesControlAgain ==
  /\ bc.isSpectaclesLeader
  /\ bc.cursorObject
  /\ ~bc.started /\ bc'.started

\* C21 as stated: taking control while already the leader is a no-op: the
\* leader flag, the control mode and the number of broadcast loops that run
\* or are about to start are as after taking it once
C21_TakeControlTwiceIsNoOp ==
  [][TakesControlAgain
       => /\ bc'.isSpectaclesLeader = bc.isSpectaclesLeader
          /\ bc'.currentControlMode = bc.currentControlMode
          /\ ActiveLoops(bc', inserts') = ActiveLoops(bc, inserts)]_vars

\* the follower's poll is answered in this step
PollAnswered == responses' # responses /\ responses \subseteq responses'

\* an empty answer is delivered in this step
EmptyDelivered == NoRow \in responses /\ responses' = responses \ {NoRow}

\* C22: a read that nothing matches is answered with the empty result, for
\* the follower's poll and for getSpectaclesCursor, also in a room no record
\* names, and the delivery of the empty result leaves the follower's target
\* and its last-seen timestamp as they were
C22_EmptyReadIsNone ==
  [][/\ (PollAnswered /\ Matching(table, follower.roomName, pcPattern) = {})
          => responses' = responses \cup {NoRow}
     /\ EmptyDelivered
          => /\ follower'.targetPosition = follower.targetPosition
             /\ follower'.lastCursorUpdate = follower.lastCursorUpdate
     /\ \A room \in Rooms \cup AnyRooms :
          Matching(table', room, spectaclesPattern) = {}
             => GetSpectaclesCursor(table', room) = {NoRow}]_vars

\* C22 witness: the follower has a target and a last-seen timestamp from an
\* earlier update, and the empty answer of a later poll has been delivered
\* while the table holds a record of another room
C22_Witness ==
  /\ follower.following = <<>>
  /\ follower.lastCursorUpdate > 0
  /\ follower.targetPosition # <<0, 0, 0>>
  /\ table # {}
  /\ Matching(table, follower.roomName, pcPattern) = {}

\* the position records of the PC client, stored or on their way
PcRecords ==
  {r \in table : r.user_id = pc.userId}
    \cup {q.row : q \in {i \in inserts : i.then = "send"}}

\* C23: any two position records the PC client writes have timestamps at
\* least broadcastThrottleMs apart, which is at most 20 in a second, and a
\* call writes a record only when broadcastThrottleMs have passed since the
\* previous accepted call: a sooner call writes nothing
C23_PcThrottle ==
  /\ [](\A r1, r2 \in PcRecords :
          r1 # r2 => Abs(r1.timestamp - r2.timestamp) >= broadcastThrottleMs)
  /\ [][(\E q \in inserts' \ inserts : q.then = "send")
          => /\ DateNow - pc.lastBroadcastTime >= broadcastThrottleMs
             /\ pc'.lastBroadcastTime = DateNow]_vars

\* C23 witness: two records of the PC client are stored, exactly
\* broadcastThrottleMs apart, and the client was called again at the moment
\* of the second
C23_Witness ==
  /\ \E r1, r2 \in table :
        /\ r1.user_id = pc.userId /\ r2.user_id = pc.userId
        /\ r2.timestamp - r1.timestamp = broadcastThrottleMs
        /\ pc.lastBroadcastTime = r2.timestamp
        /\ DateNow = r2.timestamp
  /\ pc.isConnected

C25_ControlNeverConsumed ==
  /\ \A resp \in responses : resp # NoRow => ~IsControl(resp)
  /\ \A r \in GetSpectaclesCursor(table, pc.roomName) :
        r # NoRow => ~IsControl(r)
  /\ \A u \in follower.activeUsers :
        ~IsControl([user_id |-> u.user_id])

\* the broadcast loops that run: their callback is armed or awaits the
\* answer to its POST
RunningLoops == bc.loops + Cardinality({q \in inserts : q.then = "loop"})

\* C26 as stated: at most one self-re-arming broadcast loop of the headset
\* runs at any time
C26_AtMostOneLoop == RunningLoops <= 1

\* the headset's position records on their way in the set ins of POSTs
HeadsetPositionsIn(ins) == {q.row : q \in {i \in ins : i.row.user_id = bc.userId}}

\* the headset releases control in this step
Releases == bc.isSpectaclesLeader /\ ~bc'.isSpectaclesLeader

\* C27: the headset issues a position record only while it leads, so none
\* between a release and the next take; and at the release its release
\* signal is issued with the time of the release, which no position record
\* of the headset, stored or still on its way, is later than
C27_NoPositionAfterRelease ==
  [][/\ HeadsetPositionsIn(inserts') \ HeadsetPositionsIn(inserts) # {}
          => (bc.isSpectaclesLeader /\ bc'.isSpectaclesLeader)
     /\ Releases
          => /\ \E q \in inserts' :
                  q.then = "none" /\ q.row = BcControlData(bc)
             /\ \A r \in {t \in table' : t.user_id = bc.userId}
                          \cup HeadsetPositionsIn(inserts') :
                  r.timestamp <= BcControlData(bc).timestamp]_vars

\* C27 witness: the headset has released control while a position record
\* was on its way: the record and the later release signal are both still
\* on their way to the table
C27_Witness ==
  /\ ~bc.isSpectaclesLeader
  /\ \E p, c \in inserts :
        /\ p.row.user_id = bc.userId /\ p.then = "loop"
        /\ c.row.user_id = bc.userId \o controlSuffix /\ c.then = "none"
        /\ p.row.timestamp < c.row.timestamp

\* C28 as stated: the cleanup of the headset, which is configured for one
\* room, removes only records of that room
C28_SweepStaysInRoom ==
  [][\A r \in table \ table' : r.room_name = bc.roomName]_vars

\* a broadcast attempt of SimpleCursorBroadcaster awaits its answer
SimpleAttempting == \E q \in inserts : q.then = "simple"

\* the timer of the running loop is armed
SimpleArmed == simple.timerArmed /\ simple.timerEnabled

\* C29: while isBroadcasting stays true, every broadcast attempt, answered
\* with an error status or by an exception, is followed by the timer being
\* armed again and then by another attempt; a loop that runs is still
\* running after every step that leaves isBroadcasting true
C29_FailedWriteKeepsLoop ==
  /\ SimpleAttempting ~> (SimpleArmed \/ ~simple.isBroadcasting)
  /\ (SimpleArmed /\ simple.isBroadcasting)
        ~> (SimpleAttempting \/ ~simple.isBroadcasting)
  /\ [][(simple.isBroadcasting /\ simple'.isBroadcasting
           /\ (SimpleArmed \/ SimpleAttempting))
          => (SimpleArmed \/ SimpleAttempting)']_vars

\* C29 witness: the loop runs, its last attempt has failed, nothing is
\* stored, and the timer is armed for the next attempt
C29_Witness ==
  /\ simple.isBroadcasting
  /\ SimpleArmed
  /\ inserts = {}
  /\ table = {}
  /\ clock > 0

\* C30: in every reachable state of the headset broadcaster the leader flag
\* is set exactly when the control mode is "spectacles_leader", and the
\* control mode is one of "pc_leader" and "spectacles_leader"
C30_FlagAndModeAgree ==
  /\ bc.currentControlMode \in {"pc_leader", "spectacles_leader"}
  /\ bc.isSpectaclesLeader <=> (bc.currentControlMode = "spectacles_leader")

\* C30 witness: the service started with a cursor object, which made the
\* headset leader, and the headset has released control since: the flag is
\* clear and the mode is "pc_leader"
C30_Witness ==
  /\ bc.started /\ bc.cursorObject
  /\ ~bc.isSpectaclesLeader
  /\ bc.currentControlMode = "pc_leader"

====
